---- MODULE Spec2Model ----
(***************************************************************************)
(* Model of the two audit utilities compare_files.py and find_missing.py.  *)
(* A string is a sequence of one-character strings, so that basename,      *)
(* splitext, the two regular-expression passes, lower(), split() and the   *)
(* substring test are computed character by character.                     *)
(***************************************************************************)
EXTENDS Integers, Sequences, FiniteSets

VARIABLES
    prog,             \* which program runs: "compare_files", "find_missing", "name"
    pc,               \* position of the program in its main()
    argv,             \* sys.argv of compare_files.py
    fs,               \* file system: root directory -> [status, walk]; the roots
                      \* of the running program only
    scanned,          \* the roots get_files has been called on, in call order
    swift_files,      \* result of get_files(swift_dir, '.swift')
    cpp_headers,      \* result of get_files(cpp_include_dir, '.hpp')
    cpp_sources,      \* result of get_files(cpp_src_dir, '.cpp')
    cpp_tests,        \* result of get_files(cpp_test_dir, '.cpp')
    idx,              \* number of swift files the comparison loop has handled
    missing_headers,  \* list of missing-header entries
    missing_sources,  \* list of missing-source entries
    out,              \* lines printed to standard output
    exit_code,        \* -1 while running, else the process exit status
    in_name,          \* name transform: the path given
    out_name,         \* name transform: its canonical name
    out_again         \* name transform: canonical name of the canonical name

vars == <<prog, pc, argv, fs, scanned, swift_files, cpp_headers, cpp_sources,
          cpp_tests, idx, missing_headers, missing_sources, out, exit_code,
          in_name, out_name, out_again>>

----------------------------------------------------------------------------
(* Characters *)

UpperChars == <<"A","B","C","D","E","F","G","H","I","J","K","L","M",
                "N","O","P","Q","R","S","T","U","V","W","X","Y","Z">>
LowerChars == <<"a","b","c","d","e","f","g","h","i","j","k","l","m",
                "n","o","p","q","r","s","t","u","v","w","x","y","z">>
DigitChars == <<"0","1","2","3","4","5","6","7","8","9">>

Range(s) == {s[i] : i \in 1..Len(s)}

\* regex class [A-Z]: the ASCII capitals only
IsUpper(c) == c \in Range(UpperChars)
\* regex class [a-z]: the ASCII small letters only
IsLower(c) == c \in Range(LowerChars)
\* the digits of regex class [a-z0-9]
IsDigit(c) == c \in Range(DigitChars)
\* regex '.', which matches any character except a newline
IsDot(c) == c # "\n"

\* the cased letters beyond ASCII that str.lower() folds, as far as the
\* model's alphabet goes: the Latin-1 capitals and their lowercase forms
UpperLatin1 == <<"À","Á","Â","Ã","Ä","Å","Æ","Ç","È","É","Ê","Ë","Ì",
                 "Í","Î","Ï","Ð","Ñ","Ò","Ó","Ô","Õ","Ö","Ø","Ù","Ú",
                 "Û","Ü","Ý","Þ">>
LowerLatin1 == <<"à","á","â","ã","ä","å","æ","ç","è","é","ê","ë","ì",
                 "í","î","ï","ð","ñ","ò","ó","ô","õ","ö","ø","ù","ú",
                 "û","ü","ý","þ">>

\* faulty variant: lower() that leaves the text as it is
LowerCharKeep(c) == c
\* str.lower() on one character: it folds every cased letter, not A-Z only
LowerChar(c) ==
    IF c \in Range(UpperChars)
    THEN LowerChars[CHOOSE i \in 1..Len(UpperChars) : UpperChars[i] = c]
    ELSE IF c \in Range(UpperLatin1)
    THEN LowerLatin1[CHOOSE i \in 1..Len(UpperLatin1) : UpperLatin1[i] = c]
    ELSE c

\* str.lower()
Lower(s) == [i \in 1..Len(s) |-> LowerChar(s[i])]

\* the other-case form of a character and of a string
SwapChar(c) ==
    IF c \in Range(UpperChars)
    THEN LowerChars[CHOOSE i \in 1..Len(UpperChars) : UpperChars[i] = c]
    ELSE IF c \in Range(LowerChars)
    THEN UpperChars[CHOOSE i \in 1..Len(LowerChars) : LowerChars[i] = c]
    ELSE IF c \in Range(UpperLatin1)
    THEN LowerLatin1[CHOOSE i \in 1..Len(UpperLatin1) : UpperLatin1[i] = c]
    ELSE IF c \in Range(LowerLatin1)
    THEN UpperLatin1[CHOOSE i \in 1..Len(LowerLatin1) : LowerLatin1[i] = c]
    ELSE c

----------------------------------------------------------------------------
(* String helpers of the Python library, as the programs use them *)

\* s[i:] with i counted from 1
From(s, i) == SubSeq(s, i, Len(s))

\* pat occurs in s at position i
MatchAt(s, i, pat) ==
    /\ i >= 1
    /\ i + Len(pat) - 1 <= Len(s)
    /\ \A k \in 1..Len(pat) : s[i + k - 1] = pat[k]

\* str.find, counted from 1; 0 when pat does not occur
Find(s, pat) ==
    IF \E i \in 1..(Len(s) + 1) : MatchAt(s, i, pat)
    THEN CHOOSE i \in 1..(Len(s) + 1) :
            /\ MatchAt(s, i, pat)
            /\ \A j \in 1..(i - 1) : ~MatchAt(s, j, pat)
    ELSE 0

\* the operator `pat in s`
Contains(s, pat) == Find(s, pat) # 0

\* str.endswith
EndsWith(s, suf) ==
    /\ Len(suf) <= Len(s)
    /\ MatchAt(s, Len(s) - Len(suf) + 1, suf)

\* str.rfind of one character, counted from 1; 0 when absent
RFindChar(s, c) ==
    IF \E i \in 1..Len(s) : s[i] = c
    THEN CHOOSE i \in 1..Len(s) : s[i] = c /\ \A j \in (i + 1)..Len(s) : s[j] # c
    ELSE 0

\* os.path.basename
Basename(p) == From(p, RFindChar(p, "/") + 1)

\* str.rstrip('/')
RECURSIVE RStripSlash(_)
RStripSlash(s) ==
    IF Len(s) > 0 /\ s[Len(s)] = "/" THEN RStripSlash(SubSeq(s, 1, Len(s) - 1)) ELSE s

\* os.path.dirname
Dirname(p) ==
    LET head == SubSeq(p, 1, RFindChar(p, "/"))
    IN IF Len(head) > 0 /\ \E i \in 1..Len(head) : head[i] # "/"
       THEN RStripSlash(head)
       ELSE head

\* os.path.splitext(p)[0]: the last dot starts the extension unless only
\* dots precede it in the file name
SplitextRoot(p) ==
    LET sepIndex == RFindChar(p, "/")
        dotIndex == RFindChar(p, ".")
    IN IF /\ dotIndex > sepIndex
          /\ \E k \in (sepIndex + 1)..(dotIndex - 1) : p[k] # "."
       THEN SubSeq(p, 1, dotIndex - 1)
       ELSE p

\* s.split(pat)[1] for a string s that contains pat: the text between the first
\* occurrence of pat and the next one after it (or the end of s)
SplitSecond(s, pat) ==
    LET rest == From(s, Find(s, pat) + Len(pat))
        nxt  == Find(rest, pat)
    IN IF nxt = 0 THEN rest ELSE SubSeq(rest, 1, nxt - 1)

----------------------------------------------------------------------------
(* The canonical-name transform *)

\* end of the longest run of [a-z] that starts at position i
RECURSIVE LowerRunEnd(_, _)
LowerRunEnd(s, i) ==
    IF i + 1 <= Len(s) /\ IsLower(s[i + 1]) THEN LowerRunEnd(s, i + 1) ELSE i

\* re.sub('(.)([A-Z][a-z]+)', r'\1_\2', s) scanning from position i:
\* leftmost matches, not overlapping, [a-z]+ greedy
RECURSIVE Sub1From(_, _)
Sub1From(s, i) ==
    IF i > Len(s) THEN <<>>
    ELSE IF /\ i + 2 <= Len(s)
            /\ IsDot(s[i])
            /\ IsUpper(s[i + 1])
            /\ IsLower(s[i + 2])
         THEN LET e == LowerRunEnd(s, i + 2)
              IN <<s[i], "_">> \o SubSeq(s, i + 1, e) \o Sub1From(s, e + 1)
         ELSE <<s[i]>> \o Sub1From(s, i + 1)

\* faulty variant: the first pass left out
Pass1Skip(s) == s
Pass1(s) == Sub1From(s, 1)

\* re.sub('([a-z0-9])([A-Z])', r'\1_\2', s) scanning from position i
RECURSIVE Sub2From(_, _)
Sub2From(s, i) ==
    IF i > Len(s) THEN <<>>
    ELSE IF /\ i + 1 <= Len(s)
            /\ (IsLower(s[i]) \/ IsDigit(s[i]))
            /\ IsUpper(s[i + 1])
         THEN <<s[i], "_", s[i + 1]>> \o Sub2From(s, i + 2)
         ELSE <<s[i]>> \o Sub2From(s, i + 1)

\* faulty variant: the second pass left out
Pass2Skip(s) == s
Pass2(s) == Sub2From(s, 1)

\* the two passes and lower() on a name whose extension is already stripped
SnakeCase(name_without_ext) == Lower(Pass2(Pass1(name_without_ext)))

\* swift_file_to_cpp_name, and the name part of swift_to_cpp_name
swift_file_to_cpp_name(swift_path) == SnakeCase(SplitextRoot(Basename(swift_path)))

----------------------------------------------------------------------------
(* Literals of the two programs, and the paths the model's trees are made of *)

\* ".swift"
DotSwift ==
    <<".","s","w","i","f","t">>

\* ".hpp"
DotHpp ==
    <<".","h","p","p">>

\* ".cpp"
DotCpp ==
    <<".","c","p","p">>

\* "/Sources/NeoSwift/"
MarkerSources ==
    <<"/","S","o","u","r","c","e","s","/","N","e","o","S","w","i","f","t",
      "/">>

\* "/Tests/"
MarkerTests ==
    <<"/","T","e","s","t","s","/">>

\* "Usage: python compare_files.py <swift_dir> <cpp_include_dir> <cpp_src_dir> [cpp_test_dir]"
UsageText ==
    <<"U","s","a","g","e",":"," ","p","y","t","h","o","n"," ","c","o","m",
      "p","a","r","e","_","f","i","l","e","s",".","p","y"," ","<","s","w",
      "i","f","t","_","d","i","r",">"," ","<","c","p","p","_","i","n","c",
      "l","u","d","e","_","d","i","r",">"," ","<","c","p","p","_","s","r",
      "c","_","d","i","r",">"," ","[","c","p","p","_","t","e","s","t","_",
      "d","i","r","]">>

\* "/Users/jinghuiliao/git/r3e/NeoSwift/Sources/NeoSwift"
FixedSwiftDir ==
    <<"/","U","s","e","r","s","/","j","i","n","g","h","u","i","l","i","a",
      "o","/","g","i","t","/","r","3","e","/","N","e","o","S","w","i","f",
      "t","/","S","o","u","r","c","e","s","/","N","e","o","S","w","i","f",
      "t">>

\* "/Users/jinghuiliao/git/r3e/NeoSwift/NeoCpp/include/neocpp"
FixedIncludeDir ==
    <<"/","U","s","e","r","s","/","j","i","n","g","h","u","i","l","i","a",
      "o","/","g","i","t","/","r","3","e","/","N","e","o","S","w","i","f",
      "t","/","N","e","o","C","p","p","/","i","n","c","l","u","d","e","/",
      "n","e","o","c","p","p">>

\* "/Users/jinghuiliao/git/r3e/NeoSwift/NeoCpp/src"
FixedSrcDir ==
    <<"/","U","s","e","r","s","/","j","i","n","g","h","u","i","l","i","a",
      "o","/","g","i","t","/","r","3","e","/","N","e","o","S","w","i","f",
      "t","/","N","e","o","C","p","p","/","s","r","c">>

\* "compare_files.py"
ProgName ==
    <<"c","o","m","p","a","r","e","_","f","i","l","e","s",".","p","y">>

\* "/w"
SwiftRoot ==
    <<"/","w">>

\* "/i"
IncludeRoot ==
    <<"/","i">>

\* "/s"
SrcRoot ==
    <<"/","s">>

\* "/t"
TestRoot ==
    <<"/","t">>

\* "/w/Sources/NeoSwift/Foo/Bar/GetBlockHeader.swift"
SwiftDeep ==
    <<"/","w","/","S","o","u","r","c","e","s","/","N","e","o","S","w","i",
      "f","t","/","F","o","o","/","B","a","r","/","G","e","t","B","l","o",
      "c","k","H","e","a","d","e","r",".","s","w","i","f","t">>

\* "/w/Sources/NeoSwift/Neo.swift"
SwiftTop ==
    <<"/","w","/","S","o","u","r","c","e","s","/","N","e","o","S","w","i",
      "f","t","/","N","e","o",".","s","w","i","f","t">>

\* "/w/Tests/a/b/Tests/ÉbTests.swift"
SwiftTwice ==
    <<"/","w","/","T","e","s","t","s","/","a","/","b","/","T","e","s","t",
      "s","/","É","b","T","e","s","t","s",".","s","w","i","f","t">>

\* "/w/Other/NoMarker.swift"
SwiftNoMarker ==
    <<"/","w","/","O","t","h","e","r","/","N","o","M","a","r","k","e","r",
      ".","s","w","i","f","t">>

\* "/w/Sources/NeoSwift/Foo/notes.md"
SwiftNotes ==
    <<"/","w","/","S","o","u","r","c","e","s","/","N","e","o","S","w","i",
      "f","t","/","F","o","o","/","n","o","t","e","s",".","m","d">>

\* "/i/neo/Get_Block_Header_Impl.hpp"
HeaderImpl ==
    <<"/","i","/","n","e","o","/","G","e","t","_","B","l","o","c","k","_",
      "H","e","a","d","e","r","_","I","m","p","l",".","h","p","p">>

\* "/i/éB_Tests.hpp"
HeaderTests ==
    <<"/","i","/","é","B","_","T","e","s","t","s",".","h","p","p">>

\* "/i/neo/no_marker.txt"
HeaderText ==
    <<"/","i","/","n","e","o","/","n","o","_","m","a","r","k","e","r",".",
      "t","x","t">>

\* "/s/get_block_header.cpp"
SourceImpl ==
    <<"/","s","/","g","e","t","_","b","l","o","c","k","_","h","e","a","d",
      "e","r",".","c","p","p">>

\* "/s/core/Neo.cpp"
SourceNeo ==
    <<"/","s","/","c","o","r","e","/","N","e","o",".","c","p","p">>

\* "/s/éb_tests.hpp"
SourceHpp ==
    <<"/","s","/","é","b","_","t","e","s","t","s",".","h","p","p">>

\* "/t/neo_tests.cpp"
TestFile ==
    <<"/","t","/","n","e","o","_","t","e","s","t","s",".","c","p","p">>

\* "GetBlockHeader.swift"
BaseDeep ==
    <<"G","e","t","B","l","o","c","k","H","e","a","d","e","r",".","s","w",
      "i","f","t">>

\* "Neo.swift"
BaseNeo ==
    <<"N","e","o",".","s","w","i","f","t">>

\* "README.md"
BaseReadme ==
    <<"R","E","A","D","M","E",".","m","d">>

\* "/get_block_header_impl.hpp"
FixedHeaderImpl ==
    <<"/","g","e","t","_","b","l","o","c","k","_","h","e","a","d","e","r",
      "_","i","m","p","l",".","h","p","p">>

\* "/Neo.hpp"
FixedHeaderNeo ==
    <<"/","N","e","o",".","h","p","p">>

\* "/sub/neo.hpp"
FixedHeaderNeoLower ==
    <<"/","s","u","b","/","n","e","o",".","h","p","p">>

\* "/get_block_header.cpp"
FixedSourceImpl ==
    <<"/","g","e","t","_","b","l","o","c","k","_","h","e","a","d","e","r",
      ".","c","p","p">>

\* "/neo.cpp"
FixedSourceNeo ==
    <<"/","n","e","o",".","c","p","p">>


\* sentinel returned for a path without a marker: (None, None)
NoResult == [some |-> FALSE, directory |-> <<>>, name |-> <<>>]

----------------------------------------------------------------------------
(* compare_files.py: swift_to_cpp_name *)

\* the relative directory for a path that contains the marker
MarkerDirectory(swift_path, marker) == Dirname(SplitSecond(swift_path, marker))

\* faulty variant: a path without a marker is placed by its own directory
swift_to_cpp_name_always(swift_path) ==
    LET snake_case == SnakeCase(SplitextRoot(Basename(swift_path)))
    IN IF Contains(swift_path, MarkerSources)
       THEN [some |-> TRUE,
             directory |-> MarkerDirectory(swift_path, MarkerSources),
             name |-> snake_case]
       ELSE [some |-> TRUE, directory |-> Dirname(swift_path), name |-> snake_case]

swift_to_cpp_name(swift_path) ==
    LET snake_case == SnakeCase(SplitextRoot(Basename(swift_path)))
    IN IF Contains(swift_path, MarkerSources)
       THEN [some |-> TRUE,
             directory |-> MarkerDirectory(swift_path, MarkerSources),
             name |-> snake_case]
       ELSE IF Contains(swift_path, MarkerTests)
       THEN [some |-> TRUE,
             directory |-> MarkerDirectory(swift_path, MarkerTests),
             name |-> snake_case]
       ELSE NoResult

----------------------------------------------------------------------------
(* get_files, the same function in both programs *)

\* os.walk yields nothing for a root it cannot list: its onerror argument is
\* left at None, so the OSError of the listing is dropped
WalkOf(directory) ==
    IF fs[directory].status = "ok" THEN fs[directory].walk ELSE <<>>

\* faulty variant: every file of the tree, whatever its extension
get_files_all(directory, extension) == WalkOf(directory)

get_files(directory, extension) ==
    SelectSeq(WalkOf(directory), LAMBDA f : EndsWith(Basename(f), extension))

----------------------------------------------------------------------------
(* Output lines and list entries *)

Line(tag, n, m, file, expected) ==
    [tag |-> tag, n |-> n, m |-> m, file |-> file, expected |-> expected]

\* print("Usage: ...")
UsageLine == Line("usage", 0, 0, UsageText, <<>>)

Min(a, b) == IF a <= b THEN a ELSE b

----------------------------------------------------------------------------
(* compare_files.py: main *)

\* len(sys.argv) below which main prints the usage
MinArgc == 4

\* faulty variant: the program name not counted
UsageRequiredOffByOne(args) == Len(args) < MinArgc - 1
\* if len(sys.argv) < 4
UsageRequired(args) == Len(args) < MinArgc

\* sys.argv[k]
Arg(k) == argv[k + 1]

\* `if cpp_test_dir`: a fifth argument that is not the empty string
HasTestDir == Len(argv) > MinArgc /\ Len(Arg(4)) > 0

\* faulty variant: the candidate name compared as it is spelled
NameInAnyRaw(name, files) ==
    \E k \in 1..Len(files) : Contains(Basename(files[k]), name)
\* the search loops over cpp_headers and over cpp_sources
NameInAny(name, files) ==
    \E k \in 1..Len(files) : Contains(Lower(Basename(files[k])), name)

\* faulty variant: only a missing result is skipped
SkippedNone(r) == ~r.some
\* if not directory or not name: continue
Skipped(r) == (~r.some \/ Len(r.directory) = 0) \/ (~r.some \/ Len(r.name) = 0)

Entry(swift_file, r) ==
    [file |-> swift_file, directory |-> r.directory, name |-> r.name]

CF_Usage ==
    /\ prog = "compare_files" /\ pc = "start"
    /\ UsageRequired(argv)
    /\ out' = Append(out, UsageLine)
    /\ exit_code' = 1
    /\ pc' = "exit"
    /\ UNCHANGED <<prog, argv, fs, scanned, swift_files, cpp_headers, cpp_sources,
                   cpp_tests, idx, missing_headers, missing_sources,
                   in_name, out_name, out_again>>

CF_Args ==
    /\ prog = "compare_files" /\ pc = "start"
    /\ ~UsageRequired(argv)
    /\ pc' = "scan_swift"
    /\ UNCHANGED <<prog, argv, fs, scanned, swift_files, cpp_headers, cpp_sources,
                   cpp_tests, idx, missing_headers, missing_sources, out, exit_code,
                   in_name, out_name, out_again>>

CF_ScanSwift ==
    /\ prog = "compare_files" /\ pc = "scan_swift"
    /\ swift_files' = get_files(Arg(1), DotSwift)
    /\ scanned' = Append(scanned, Arg(1))
    /\ pc' = "scan_headers"
    /\ UNCHANGED <<prog, argv, fs, cpp_headers, cpp_sources, cpp_tests, idx,
                   missing_headers, missing_sources, out, exit_code,
                   in_name, out_name, out_again>>

CF_ScanHeaders ==
    /\ prog = "compare_files" /\ pc = "scan_headers"
    /\ cpp_headers' = get_files(Arg(2), DotHpp)
    /\ scanned' = Append(scanned, Arg(2))
    /\ pc' = "scan_sources"
    /\ UNCHANGED <<prog, argv, fs, swift_files, cpp_sources, cpp_tests, idx,
                   missing_headers, missing_sources, out, exit_code,
                   in_name, out_name, out_again>>

CF_ScanSources ==
    /\ prog = "compare_files" /\ pc = "scan_sources"
    /\ cpp_sources' = get_files(Arg(3), DotCpp)
    /\ scanned' = Append(scanned, Arg(3))
    /\ pc' = "scan_tests"
    /\ UNCHANGED <<prog, argv, fs, swift_files, cpp_headers, cpp_tests, idx,
                   missing_headers, missing_sources, out, exit_code,
                   in_name, out_name, out_again>>

CF_ScanTests ==
    /\ prog = "compare_files" /\ pc = "scan_tests"
    /\ IF HasTestDir
       THEN /\ cpp_tests' = get_files(Arg(4), DotCpp)
            /\ scanned' = Append(scanned, Arg(4))
       ELSE /\ cpp_tests' = <<>>
            /\ UNCHANGED scanned
    /\ pc' = "loop"
    /\ UNCHANGED <<prog, argv, fs, swift_files, cpp_headers, cpp_sources, idx,
                   missing_headers, missing_sources, out, exit_code,
                   in_name, out_name, out_again>>

\* one iteration of `for swift_file in swift_files`
CF_LoopStep ==
    /\ prog = "compare_files" /\ pc = "loop"
    /\ idx < Len(swift_files)
    /\ LET swift_file == swift_files[idx + 1]
           r == swift_to_cpp_name(swift_file)
       IN IF Skipped(r)
          THEN UNCHANGED <<missing_headers, missing_sources>>
          ELSE /\ missing_headers' =
                    IF NameInAny(r.name, cpp_headers)
                    THEN missing_headers
                    ELSE Append(missing_headers, Entry(swift_file, r))
               /\ missing_sources' =
                    IF NameInAny(r.name, cpp_sources)
                    THEN missing_sources
                    ELSE Append(missing_sources, Entry(swift_file, r))
    /\ idx' = idx + 1
    /\ UNCHANGED <<prog, pc, argv, fs, scanned, swift_files, cpp_headers,
                   cpp_sources, cpp_tests, out, exit_code,
                   in_name, out_name, out_again>>

\* the lines of one "Missing C++ ..." block
MissingLines(tag, missing, extension) ==
    [k \in 1..Len(missing) |->
        Line(tag, 0, 0, missing[k].file,
             missing[k].directory \o <<"/">> \o missing[k].name \o extension)]

CF_Report ==
    /\ prog = "compare_files" /\ pc = "loop"
    /\ idx = Len(swift_files)
    /\ out' = out
              \o << Line("total_swift", Len(swift_files), 0, <<>>, <<>>),
                    Line("total_headers", Len(cpp_headers), 0, <<>>, <<>>),
                    Line("total_sources", Len(cpp_sources), 0, <<>>, <<>>),
                    Line("total_tests", Len(cpp_tests), 0, <<>>, <<>>),
                    Line("heading_headers", 0, 0, <<>>, <<>>) >>
              \o MissingLines("missing_header", missing_headers, DotHpp)
              \o << Line("heading_sources", 0, 0, <<>>, <<>>) >>
              \o MissingLines("missing_source", missing_sources, DotCpp)
    /\ exit_code' = 0
    /\ pc' = "done"
    /\ UNCHANGED <<prog, argv, fs, scanned, swift_files, cpp_headers, cpp_sources,
                   cpp_tests, idx, missing_headers, missing_sources,
                   in_name, out_name, out_again>>

----------------------------------------------------------------------------
(* find_missing.py: main *)

\* the slice [:10] of the two report loops
TopN == 10

\* os.path.splitext(os.path.basename(f))[0] for f in the scanned list
BaseNames(files) == [k \in 1..Len(files) |-> SplitextRoot(Basename(files[k]))]

\* any(swift_name in candidate for candidate in names)
AnyContains(swift_name, names) ==
    \E k \in 1..Len(names) : Contains(names[k], swift_name)

FM_ScanSwift ==
    /\ prog = "find_missing" /\ pc = "start"
    /\ swift_files' = get_files(FixedSwiftDir, DotSwift)
    /\ scanned' = Append(scanned, FixedSwiftDir)
    /\ pc' = "scan_headers"
    /\ UNCHANGED <<prog, argv, fs, cpp_headers, cpp_sources, cpp_tests, idx,
                   missing_headers, missing_sources, out, exit_code,
                   in_name, out_name, out_again>>

FM_ScanHeaders ==
    /\ prog = "find_missing" /\ pc = "scan_headers"
    /\ cpp_headers' = get_files(FixedIncludeDir, DotHpp)
    /\ scanned' = Append(scanned, FixedIncludeDir)
    /\ pc' = "scan_sources"
    /\ UNCHANGED <<prog, argv, fs, swift_files, cpp_sources, cpp_tests, idx,
                   missing_headers, missing_sources, out, exit_code,
                   in_name, out_name, out_again>>

FM_ScanSources ==
    /\ prog = "find_missing" /\ pc = "scan_sources"
    /\ cpp_sources' = get_files(FixedSrcDir, DotCpp)
    /\ scanned' = Append(scanned, FixedSrcDir)
    /\ pc' = "loop"
    /\ UNCHANGED <<prog, argv, fs, swift_files, cpp_headers, cpp_tests, idx,
                   missing_headers, missing_sources, out, exit_code,
                   in_name, out_name, out_again>>

FMEntry(swift_file, swift_name) == [file |-> swift_file, name |-> swift_name]

\* one iteration of `for i, swift_name in enumerate(swift_names)`
FM_LoopStep ==
    /\ prog = "find_missing" /\ pc = "loop"
    /\ idx < Len(swift_files)
    /\ LET swift_file == swift_files[idx + 1]
           swift_name == swift_file_to_cpp_name(swift_file)
       IN /\ missing_headers' =
               IF AnyContains(swift_name, BaseNames(cpp_headers))
               THEN missing_headers
               ELSE Append(missing_headers, FMEntry(swift_file, swift_name))
          /\ missing_sources' =
               IF AnyContains(swift_name, BaseNames(cpp_sources))
               THEN missing_sources
               ELSE Append(missing_sources, FMEntry(swift_file, swift_name))
    /\ idx' = idx + 1
    /\ UNCHANGED <<prog, pc, argv, fs, scanned, swift_files, cpp_headers,
                   cpp_sources, cpp_tests, out, exit_code,
                   in_name, out_name, out_again>>

\* faulty variant: the whole list, not its first ten entries
TopAll(missing) == missing
\* missing[:10]
Top(missing) == SubSeq(missing, 1, Min(TopN, Len(missing)))

\* the ranked lines of one "Top 10 Missing ..." block
RankedLines(tag, missing, extension) ==
    LET shown == Top(missing)
    IN [k \in 1..Len(shown) |->
          Line(tag, k, 0, Basename(shown[k].file), shown[k].name \o extension)]

FM_Report ==
    /\ prog = "find_missing" /\ pc = "loop"
    /\ idx = Len(swift_files)
    /\ out' = out
              \o << Line("heading_headers", 0, 0, <<>>, <<>>) >>
              \o RankedLines("rank_header", missing_headers, DotHpp)
              \o << Line("heading_sources", 0, 0, <<>>, <<>>) >>
              \o RankedLines("rank_source", missing_sources, DotCpp)
              \o << Line("total_missing", Len(missing_headers),
                         Len(missing_sources), <<>>, <<>>) >>
    /\ exit_code' = 0
    /\ pc' = "done"
    /\ UNCHANGED <<prog, argv, fs, scanned, swift_files, cpp_headers, cpp_sources,
                   cpp_tests, idx, missing_headers, missing_sources,
                   in_name, out_name, out_again>>

----------------------------------------------------------------------------
(* The name transform run on its own, and then on its own output *)

N_Convert ==
    /\ prog = "name" /\ pc = "start"
    /\ out_name' = swift_file_to_cpp_name(in_name)
    /\ pc' = "converted"
    /\ UNCHANGED <<prog, argv, fs, scanned, swift_files, cpp_headers, cpp_sources,
                   cpp_tests, idx, missing_headers, missing_sources, out, exit_code,
                   in_name, out_again>>

N_Again ==
    /\ prog = "name" /\ pc = "converted"
    /\ out_again' = swift_file_to_cpp_name(out_name)
    /\ pc' = "again"
    /\ UNCHANGED <<prog, argv, fs, scanned, swift_files, cpp_headers, cpp_sources,
                   cpp_tests, idx, missing_headers, missing_sources, out, exit_code,
                   in_name, out_name>>

----------------------------------------------------------------------------
(* Inputs *)

\* longest list of paths the walk of the source tree yields (compare_files)
MaxSwift == 2
\* longest argv
MaxArgc == 5
\* longest walk of the hard-coded source tree (find_missing)
MaxFindFiles == 18
\* longest base name stem given to the name transform
MaxLen == 5

\* all sequences over S of length at most n
SeqsUpTo(S, n) == UNION {[1..k -> S] : k \in 0..n}

\* those without a repeated element: a walk lists a path once
WalksOver(S, n) ==
    {w \in SeqsUpTo(S, n) : \A i, j \in 1..Len(w) : i # j => w[i] # w[j]}

Tree(status, walk) == [status |-> status, walk |-> walk]
Absent == Tree("missing", <<>>)

SwiftPool == {SwiftDeep, SwiftTop, SwiftTwice, SwiftNoMarker, SwiftNotes}

SwiftTrees ==
    {Tree("ok", w) : w \in WalksOver(SwiftPool, MaxSwift)}
      \cup {Absent, Tree("unreadable", <<SwiftDeep>>)}

HeaderTrees ==
    {Tree("ok", w) : w \in {<<>>, <<HeaderImpl>>, <<HeaderText, HeaderImpl>>,
                            <<HeaderTests>>, <<HeaderTests, HeaderImpl>>}}
      \cup {Absent, Tree("unreadable", <<HeaderImpl>>)}

SourceTrees ==
    {Tree("ok", w) : w \in {<<>>, <<SourceImpl>>, <<SourceHpp, SourceNeo>>}}
      \cup {Absent, Tree("unreadable", <<SourceImpl>>)}

TestTrees == {Tree("ok", <<TestFile>>), Absent, Tree("unreadable", <<TestFile>>)}

\* the roots compare_files.py is given, and those find_missing.py names
CompareRoots == {SwiftRoot, IncludeRoot, SrcRoot, TestRoot}
FindRoots == {FixedSwiftDir, FixedIncludeDir, FixedSrcDir}

FsCompare ==
    {[r \in CompareRoots |->
        IF r = SwiftRoot THEN a
        ELSE IF r = IncludeRoot THEN b
        ELSE IF r = SrcRoot THEN c
        ELSE d] :
     a \in SwiftTrees, b \in HeaderTrees, c \in SourceTrees, d \in TestTrees}

\* sys.argv of length n; an argument past the fifth is ignored by main
ArgvOf(n) ==
    [k \in 1..n |->
        IF k = 1 THEN ProgName
        ELSE IF k = 2 THEN SwiftRoot
        ELSE IF k = 3 THEN IncludeRoot
        ELSE IF k = 4 THEN SrcRoot
        ELSE TestRoot]

ArgvChoices ==
    {ArgvOf(n) : n \in 1..MaxArgc}
      \cup {<<ProgName, SwiftRoot, IncludeRoot, SrcRoot, <<>> >>}

\* the k-th file of a walk of the hard-coded source tree: each in a directory
\* of its own, the base names taking turns from position `shift`
FindBases == <<BaseDeep, BaseNeo, BaseReadme>>
FindFile(k, shift) ==
    FixedSwiftDir \o <<"/", LowerChars[k], "/">> \o FindBases[((k + shift) % 3) + 1]

FindSwiftTrees ==
    {Tree("ok", [k \in 1..n |-> FindFile(k, shift)]) :
        n \in 0..MaxFindFiles, shift \in 0..2}
      \cup {Absent, Tree("unreadable", <<FindFile(1, 0)>>)}

FindHeaderTrees ==
    {Tree("ok", w) :
        w \in {<<>>, <<FixedIncludeDir \o FixedHeaderImpl>>,
               <<FixedIncludeDir \o FixedHeaderNeo>>,
               <<FixedIncludeDir \o FixedHeaderNeoLower,
                 FixedIncludeDir \o FixedHeaderImpl>>}}
      \cup {Absent}

FindSourceTrees ==
    {Tree("ok", w) :
        w \in {<<>>, <<FixedSrcDir \o FixedSourceImpl>>,
               <<FixedSrcDir \o FixedSourceNeo>>}}
      \cup {Absent}

FsFind ==
    {[r \in FindRoots |->
        IF r = FixedSwiftDir THEN a
        ELSE IF r = FixedIncludeDir THEN b
        ELSE c] :
     a \in FindSwiftTrees, b \in FindHeaderTrees, c \in FindSourceTrees}

NameAlphabet == {"a", "A", "B", "1", "_", ".", "\n", "É"}

InitCommon ==
    /\ pc = "start"
    /\ scanned = <<>>
    /\ swift_files = <<>>
    /\ cpp_headers = <<>>
    /\ cpp_sources = <<>>
    /\ cpp_tests = <<>>
    /\ idx = 0
    /\ missing_headers = <<>>
    /\ missing_sources = <<>>
    /\ out = <<>>
    /\ exit_code = -1
    /\ out_name = <<>>
    /\ out_again = <<>>

InitCompare ==
    /\ prog = "compare_files"
    /\ argv \in ArgvChoices
    /\ fs \in FsCompare
    /\ in_name = <<>>
    /\ InitCommon

InitFind ==
    /\ prog = "find_missing"
    /\ argv = <<>>
    /\ fs \in FsFind
    /\ in_name = <<>>
    /\ InitCommon

InitName ==
    /\ prog = "name"
    /\ argv = <<>>
    /\ fs = <<>>
    /\ in_name \in {stem \o DotSwift : stem \in SeqsUpTo(NameAlphabet, MaxLen)}
    /\ InitCommon

Init == InitCompare \/ InitFind

Next ==
    \/ CF_Usage
    \/ CF_Args
    \/ CF_ScanSwift
    \/ CF_ScanHeaders
    \/ CF_ScanSources
    \/ CF_ScanTests
    \/ CF_LoopStep
    \/ CF_Report
    \/ FM_ScanSwift
    \/ FM_ScanHeaders
    \/ FM_ScanSources
    \/ FM_LoopStep
    \/ FM_Report

Spec == Init /\ [][Next]_vars

NextName == N_Convert \/ N_Again

SpecName == InitName /\ [][NextName]_vars

----------------------------------------------------------------------------
(* Helpers of the properties *)

\* the source paths of a list of missing entries
Files(missing) == [k \in 1..Len(missing) |-> missing[k].file]

\* the base name with its extension stripped, as the transform sees it
Stem(path) == SplitextRoot(Basename(path))

\* no two consecutive uppercase letters
NoConsecUpper(s) ==
    \A i \in 1..(Len(s) - 1) : ~(IsUpper(s[i]) /\ IsUpper(s[i + 1]))

\* uppercase letter right after a lowercase letter or a digit
AfterLowerOrDigit(s, i) ==
    /\ i > 1
    /\ IsUpper(s[i])
    /\ (IsLower(s[i - 1]) \/ IsDigit(s[i - 1]))

\* uppercase letter right before a lowercase letter and right after some
\* character that is not a newline
BeforeLowerAfterAny(s, i) ==
    /\ i > 1
    /\ i < Len(s)
    /\ IsUpper(s[i])
    /\ IsLower(s[i + 1])
    /\ s[i - 1] # "\n"

\* s with '_' put before every position of the set at
RECURSIVE InsertAt(_, _, _)
InsertAt(s, at, i) ==
    IF i > Len(s) THEN <<>>
    ELSE (IF i \in at THEN <<"_", s[i]>> ELSE <<s[i]>>) \o InsertAt(s, at, i + 1)

\* the one-rule reading: '_' only after a lowercase letter or a digit
OneRule(s) ==
    Lower(InsertAt(s, {i \in 1..Len(s) : AfterLowerOrDigit(s, i)}, 1))

\* the two-rule reading
TwoRules(s) ==
    Lower(InsertAt(s, {i \in 1..Len(s) :
                          AfterLowerOrDigit(s, i) \/ BeforeLowerAfterAny(s, i)}, 1))

----------------------------------------------------------------------------
(* C1 *)

\* C1 as stated: for a base name without two consecutive uppercase letters the
\* canonical name is the lowercased name with '_' before every uppercase
\* letter that follows a lowercase letter or a digit, and nowhere else
\* (letters and digits as the two patterns read them: A-Z, a-z, 0-9).
C1_OneRuleOnly ==
    (prog = "name" /\ pc # "start" /\ NoConsecUpper(Stem(in_name)))
        => out_name = OneRule(Stem(in_name))

\* C1 amended: for a base name without two consecutive letters of A-Z the
\* canonical name is str.lower() of the name with '_' before every letter of
\* A-Z that follows a letter of a-z or a digit 0-9, and before every letter
\* of A-Z that is followed by a letter of a-z and follows any character other
\* than a newline, and nowhere else; a cased letter outside ASCII gets no
\* underscore and is lowercased.
C1_TwoRules ==
    (prog = "name" /\ pc # "start" /\ NoConsecUpper(Stem(in_name)))
        => out_name = TwoRules(Stem(in_name))

\* a converted name where the second rule put an underscore after '_' and a
\* capital outside A-Z got none and was lowercased
C1_Witness ==
    /\ prog = "name" /\ pc = "converted"
    /\ NoConsecUpper(Stem(in_name))
    /\ \E i \in 2..Len(Stem(in_name)) :
          /\ Stem(in_name)[i] = "É"
          /\ IsLower(Stem(in_name)[i - 1])
          /\ "é" \in Range(out_name)
    /\ \E i \in 1..Len(Stem(in_name)) :
          BeforeLowerAfterAny(Stem(in_name), i) /\ Stem(in_name)[i - 1] = "_"
    /\ out_name = TwoRules(Stem(in_name))

----------------------------------------------------------------------------
(* C2 *)

\* C2 as stated: the transform applied to its own output returns that output.
C2_Idempotent ==
    (prog = "name" /\ pc = "again") => out_again = out_name

\* C2 amended: when the canonical name has no extension of its own left
\* (splitext leaves it unchanged), the transform applied to it returns it.
C2_IdempotentNoExt ==
    (prog = "name" /\ pc = "again" /\ SplitextRoot(out_name) = out_name)
        => out_again = out_name

\* a name the transform changed, converted a second time
C2_Witness ==
    /\ prog = "name" /\ pc = "again"
    /\ SplitextRoot(out_name) = out_name
    /\ Len(out_name) > Len(Stem(in_name))
    /\ \E i \in 1..Len(out_name) : out_name[i] = "."
    /\ out_again = out_name

----------------------------------------------------------------------------
(* C3 *)

CountTags == {"total_swift", "total_headers", "total_sources", "total_tests",
              "total_missing"}
ReportTags == CountTags \cup {"missing_header", "missing_source",
                              "rank_header", "rank_source"}

BadRootScanned == \E k \in 1..Len(scanned) : fs[scanned[k]].status # "ok"

\* C3 as stated: once a root that is missing or unreadable has been scanned
\* the program does not end normally and prints neither the count summary
\* nor a missing entry.
C3_BadRootStops ==
    BadRootScanned =>
        /\ pc # "done"
        /\ exit_code # 0
        /\ \A k \in 1..Len(out) : out[k].tag \notin ReportTags

----------------------------------------------------------------------------
(* C4 *)

TranslatedEmpty == cpp_headers = <<>> /\ cpp_sources = <<>>

\* the count lines printed for the scanned lists
TotalsMatchScan ==
    IF prog = "compare_files"
    THEN /\ out[1] = Line("total_swift", Len(swift_files), 0, <<>>, <<>>)
         /\ out[2] = Line("total_headers", Len(cpp_headers), 0, <<>>, <<>>)
         /\ out[3] = Line("total_sources", Len(cpp_sources), 0, <<>>, <<>>)
         /\ out[4] = Line("total_tests", Len(cpp_tests), 0, <<>>, <<>>)
    ELSE out[Len(out)] =
            Line("total_missing", Len(swift_files), Len(swift_files), <<>>, <<>>)

\* C4 as stated: with no header and no source candidate, every scanned source
\* file is in both missing lists, once, in scan order, and the printed totals
\* are the lengths of the scanned lists.
C4_AllMissing ==
    (pc = "done" /\ TranslatedEmpty) =>
        /\ Files(missing_headers) = swift_files
        /\ Files(missing_sources) = swift_files
        /\ TotalsMatchScan

\* the relative directory swift_to_cpp_name gives is a non-empty string
HasDirectory(swift_file) ==
    /\ swift_to_cpp_name(swift_file).some
    /\ swift_to_cpp_name(swift_file).directory # <<>>

\* C4 amended: with no header and no source candidate, both missing lists
\* hold, once and in scan order, in find_missing.py every scanned source file
\* and in compare_files.py every scanned source file to which
\* swift_to_cpp_name gives a non-empty relative directory; compare_files.py
\* prints the lengths of the scanned lists, find_missing.py the lengths of
\* the missing lists.
C4_KeptMissing ==
    (pc = "done" /\ TranslatedEmpty) =>
        IF prog = "compare_files"
        THEN /\ Files(missing_headers) = SelectSeq(swift_files, HasDirectory)
             /\ Files(missing_sources) = SelectSeq(swift_files, HasDirectory)
             /\ TotalsMatchScan
        ELSE /\ Files(missing_headers) = swift_files
             /\ Files(missing_sources) = swift_files
             /\ out[Len(out)] = Line("total_missing", Len(missing_headers),
                                     Len(missing_sources), <<>>, <<>>)

\* compare_files.py ended on an empty translated tree with two files missing
\* in scan order
C4_Witness ==
    /\ prog = "compare_files" /\ pc = "done"
    /\ TranslatedEmpty
    /\ swift_files = <<SwiftTwice, SwiftDeep>>
    /\ Files(missing_headers) = swift_files
    /\ Files(missing_sources) = swift_files

----------------------------------------------------------------------------
(* C5 *)

\* C5: compare_files.py with len(sys.argv) < 4 scans nothing, prints the
\* usage line and nothing else, and exits with status 1; with
\* len(sys.argv) >= 4 it never prints the usage line.
C5_Usage ==
    prog = "compare_files" =>
        IF Len(argv) < MinArgc
        THEN /\ pc \in {"start", "exit"}
             /\ scanned = <<>>
             /\ out \in {<<>>, <<UsageLine>>}
             /\ pc = "exit" => (out = <<UsageLine>> /\ exit_code = 1)
        ELSE /\ \A k \in 1..Len(out) : out[k] # UsageLine
             /\ exit_code # 1
             /\ pc # "exit"

\* three arguments in sys.argv: usage printed, exit status 1
C5_Witness ==
    /\ prog = "compare_files" /\ pc = "exit"
    /\ Len(argv) = MinArgc - 1
    /\ out = <<UsageLine>>
    /\ exit_code = 1

----------------------------------------------------------------------------
(* C6 *)

HasMarker(path) == Contains(path, MarkerSources) \/ Contains(path, MarkerTests)

\* C6: in compare_files.py a source path without a marker is in neither
\* missing list, and the printed source-file count is the length of the raw
\* scan, such paths included.
C6_NoMarkerSkipped ==
    prog = "compare_files" =>
        /\ \A k \in 1..Len(missing_headers) : HasMarker(missing_headers[k].file)
        /\ \A k \in 1..Len(missing_sources) : HasMarker(missing_sources[k].file)
        /\ pc = "done" =>
              /\ out[1].tag = "total_swift"
              /\ out[1].n = Cardinality({k \in 1..Len(WalkOf(Arg(1))) :
                               EndsWith(WalkOf(Arg(1))[k], DotSwift)})

\* a path without a marker was scanned and counted while another file was
\* reported missing
C6_Witness ==
    /\ prog = "compare_files" /\ pc = "done"
    /\ swift_files = <<SwiftNoMarker, SwiftDeep>>
    /\ TranslatedEmpty
    /\ out[1].n = 2
    /\ Files(missing_headers) = <<SwiftDeep>>

----------------------------------------------------------------------------
(* C7 *)

\* the marker swift_to_cpp_name takes, in its order of trial
MarkerOf(path) ==
    IF Contains(path, MarkerSources) THEN MarkerSources ELSE MarkerTests

\* everything after the first occurrence of pat
AfterFirst(s, pat) == From(s, Find(s, pat) + Len(pat))

\* C7 as stated: the relative directory of an entry is the parent directory
\* of everything after the first occurrence of the marker.
C7_DirectoryAfterFirstMarker ==
    prog = "compare_files" =>
        \A k \in 1..Len(missing_headers) :
            missing_headers[k].directory =
                Dirname(AfterFirst(missing_headers[k].file,
                                   MarkerOf(missing_headers[k].file)))

----------------------------------------------------------------------------
(* C8 *)

\* a path with the letters of its base name stem replaced by ch
Respell(path, ch(_)) ==
    LET cut == RFindChar(path, "/")
        stem == Stem(path)
        base == Basename(path)
    IN SubSeq(path, 1, cut)
         \o [i \in 1..Len(stem) |-> ch(stem[i])]
         \o From(base, Len(stem) + 1)

RespellAll(files, ch(_)) == [k \in 1..Len(files) |-> Respell(files[k], ch)]

\* the source files the comparison of the running program reports missing
\* against the candidate list files
MissingAgainst(files) ==
    IF prog = "compare_files"
    THEN SelectSeq(swift_files,
            LAMBDA f : /\ ~Skipped(swift_to_cpp_name(f))
                       /\ ~NameInAny(swift_to_cpp_name(f).name, files))
    ELSE SelectSeq(swift_files,
            LAMBDA f : ~AnyContains(swift_file_to_cpp_name(f), BaseNames(files)))

CaseBlind ==
    /\ Files(missing_headers) = MissingAgainst(RespellAll(cpp_headers, SwapChar))
    /\ Files(missing_headers) = MissingAgainst(RespellAll(cpp_headers, LowerChar))
    /\ Files(missing_sources) = MissingAgainst(RespellAll(cpp_sources, SwapChar))
    /\ Files(missing_sources) = MissingAgainst(RespellAll(cpp_sources, LowerChar))

\* C8 as stated: in both programs the missing lists are the same when the
\* translated files are spelled in another letter case.
C8_CaseBlindBoth == pc = "done" => CaseBlind

\* C8 amended: in compare_files.py the missing lists are the same when the
\* base names of the scanned translated files are spelled in another letter
\* case; find_missing.py compares the candidate name as it is spelled.
C8_CaseBlindCompare == (prog = "compare_files" /\ pc = "done") => CaseBlind

\* a header spelled with capitals, one of them outside A-Z, matched a source
\* file
C8_Witness ==
    /\ prog = "compare_files" /\ pc = "done"
    /\ swift_files = <<SwiftTwice>>
    /\ cpp_headers = <<HeaderTests>>
    /\ missing_headers = <<>>
    /\ Len(missing_sources) = 1

----------------------------------------------------------------------------
(* C9 *)

Tagged(tag) == SelectSeq(out, LAMBDA l : l.tag = tag)

RanksOf(tag, missing, extension) ==
    /\ Len(Tagged(tag)) = Min(TopN, Len(missing))
    /\ \A k \in 1..Len(Tagged(tag)) :
          Tagged(tag)[k] =
              Line(tag, k, 0, Basename(missing[k].file), missing[k].name \o extension)

\* C9: find_missing.py prints for each category the first min(10, n) entries
\* of the missing list, in order, ranked 1, 2, ..., and its last line gives
\* the full lengths of both missing lists.
C9_TopTen ==
    (prog = "find_missing" /\ pc = "done") =>
        /\ RanksOf("rank_header", missing_headers, DotHpp)
        /\ RanksOf("rank_source", missing_sources, DotCpp)
        /\ out[Len(out)] = Line("total_missing", Len(missing_headers),
                                Len(missing_sources), <<>>, <<>>)
        /\ Len(out) = 3 + Len(Tagged("rank_header")) + Len(Tagged("rank_source"))

\* more than ten missing headers, ten of them printed
C9_Witness ==
    /\ prog = "find_missing" /\ pc = "done"
    /\ Len(missing_headers) > TopN
    /\ Len(Tagged("rank_header")) = TopN
    /\ Len(missing_sources) \in 1..(TopN - 1)

----------------------------------------------------------------------------
(* C10 *)

\* C10 as stated: in compare_files.py a source file with a marker in its
\* path is in missing-headers exactly when no scanned header's lowercased
\* base name contains its canonical name, and in missing-sources exactly
\* when no scanned source's does.
C10_MarkedAccounted ==
    (prog = "compare_files" /\ pc = "done") =>
        \A k \in 1..Len(swift_files) :
            HasMarker(swift_files[k]) =>
                LET name == swift_file_to_cpp_name(swift_files[k])
                IN /\ (swift_files[k] \in Range(Files(missing_headers)))
                        <=> ~(\E h \in Range(cpp_headers) :
                                Contains(Lower(Basename(h)), name))
                   /\ (swift_files[k] \in Range(Files(missing_sources)))
                        <=> ~(\E s \in Range(cpp_sources) :
                                Contains(Lower(Basename(s)), name))

====
